---- MODULE Spec2Model ----
(***************************************************************************)
(* Relay synchronization engine of nostrstart: the relay-list resolver     *)
(* (fetch_relay_list), the event fetcher (fetch_all_events) and the event  *)
(* broadcaster (publish_to_relay / broadcast_events).  Relays are the      *)
(* environment: every connect, send and recv outcome is chosen             *)
(* nondeterministically.                                                   *)
(***************************************************************************)
EXTENDS Integers, Sequences, FiniteSets, TLC

\* ------------------------------------------------------------------ bounds
\* Number of bootstrap relays of POPULAR_RELAYS the resolver model iterates.
PoolLen == 3
\* Messages one relay may deliver during one resolver attempt.
MaxResolveMsgs == 2
\* Length of the relay list handed to fetch_all_events.
MaxFetchRelays == 2
\* Messages one relay may deliver during one fetcher attempt, before the
\* message that ends the attempt.
MaxFetchMsgs == 2
\* Length of the relay list handed to broadcast_events.
MaxBroadcastRelays == 2
\* Length of the event list handed to broadcast_events.
MaxBroadcastEvents == 2
\* 5-bit groups in the data part of an identifier
MaxDataLen == 3
\* files in the backup folder; events a flow fetches or loads
MaxBackupFiles == 2
MaxFlowEvents == 2

\* --------------------------------------------------------------- constants
\* src/backup.py:10-20
BootstrapPool ==
    << "wss://eu.purplerelay.com", "wss://nos.lol", "wss://nosdrive.app/relay",
       "wss://nostrelites.org", "wss://relay.damus.io", "wss://relay.nostr.band",
       "wss://relay.primal.net", "wss://relay.snort.social", "wss://vitor.nostr1.com" >>

Min(a, b) == IF a < b THEN a ELSE b

POPULAR_RELAYS == SubSeq(BootstrapPool, 1, Min(PoolLen, Len(BootstrapPool)))

\* kind of a relay-list event (NIP-65), src/backup.py:33 and :49
RelayListKind == 10002
\* some other kind a relay may deliver (a text note)
NoteKind == 1

\* os.urandom(4).hex(): the tokens a call may draw
SubIds == {"s1", "s2"}

None == "None"

\* ------------------------------------------------------- inbound messages
\* Tags a relay-list event may carry.  <<>> is an empty tag array: tag[0]
\* raises IndexError on it.
TagLists ==
    { <<>>,
      << <<"r", "wss://a">>, <<"r", "wss://b", "write">> >>,
      << <<"r", "wss://a", "read">> >>,
      << <<"r", "wss://b", "write">> >>,
      << <<"r", "wss://a", "both">>, <<"p", "wss://b">> >>,
      << <<"r">>, <<"e", "wss://a", "read">> >>,
      << <<"r", "wss://b">>, <<>> >> }

EventMsg(s, k, ts, e) == [type |-> "EVENT", sub |-> s, kind |-> k, tags |-> ts, id |-> e]
EoseMsg(s) == [type |-> "EOSE", sub |-> s, kind |-> 0, tags |-> <<>>, id |-> None]
\* a frame json.loads rejects, or whose shape makes message[0], message[1],
\* message[2] or event.get raise
BadMsg == [type |-> "BAD", sub |-> None, kind |-> 0, tags |-> <<>>, id |-> None]
\* a well-formed frame of another type (NOTICE, OK, CLOSED)
NoticeMsg == [type |-> "NOTICE", sub |-> None, kind |-> 0, tags |-> <<>>, id |-> None]

\* What a relay may send on a connection whose subscription is sub: relay-list
\* events and EOSE for it, and a relay-list event, an event of another kind
\* and an EOSE that are not for it or not of kind 10002.
ResolverMsgs(sub) ==
    { EventMsg(sub, RelayListKind, ts, None) : ts \in TagLists }
    \cup { EventMsg(s, RelayListKind, << <<"r", "wss://a">> >>, None) : s \in SubIds \ {sub} }
    \cup { EventMsg(sub, NoteKind, << <<"r", "wss://a">> >>, None) }
    \cup { EoseMsg(s) : s \in SubIds }
    \cup { BadMsg, NoticeMsg }

\* Events of the identity's history, named by their id; the fetcher passes
\* the record through untouched.
EventIds == {"e1", "e2"}

\* What a relay may send on a connection whose subscription is sub: events
\* and EOSE for it, an event and an EOSE of another subscription, a frame of
\* another type and a frame that does not parse.
FetchMsgs(sub) ==
    { EventMsg(sub, NoteKind, <<>>, e) : e \in EventIds }
    \cup { EventMsg(s, NoteKind, <<>>, "e1") : s \in SubIds \ {sub} }
    \cup { EoseMsg(s) : s \in SubIds }
    \cup { BadMsg, NoticeMsg }

\* Relay URLs a relay list may name.
RelayURLs == {"wss://a", "wss://b"}

SeqsUpTo(S, n) == UNION { [1..k -> S] : k \in 0..n }

\* Hex public keys handed to fetch_all_events.
Pubkeys == {"pk1", "pk2"}

\* src/backup.py:85: the stop of range(0, 40000).
KindsStop == 40000

\* range(start, stop) as a list: start, start + 1, ... stop - 1.
PyRange(start, stop) == start..(stop - 1)

\* src/backup.py:84-86: the REQ of fetch_all_events; the kinds list is kept by
\* the arguments of its range.
FetchRequest(sub_id, pubkey) ==
    [type |-> "REQ", sub |-> sub_id,
     kinds |-> [start |-> 0, stop |-> KindsStop],
     authors |-> << pubkey >>]

\* The kinds a filter names.
KindsOf(req) == PyRange(req.kinds.start, req.kinds.stop)

NoReq == [type |-> "none", sub |-> None, kinds |-> [start |-> 0, stop |-> 0],
          authors |-> <<>>]

\* Relay lists handed to fetch_all_events: the same relay may be named twice.
FetchInputs ==
    { SubSeq(<< "wss://a", "wss://a", "wss://b", "wss://a" >>, 1, k) :
        k \in 0..MaxFetchRelays }

VARIABLES
    \* ---- fetch_relay_list
    r_pc,           \* "idle" | "connect" | "send" | "recv" | "returned"
    r_i,            \* position of relay_url in POPULAR_RELAYS
    r_sub_id,       \* sub_id of the open connection
    relay_list,     \* the accumulator {"read": [...], "write": [...]}
    r_result,       \* the value returned, NoResult before the return
    r_via,          \* "none" | "relay" (line 65) | "fallback" (line 72)
    r_contacted,    \* history: pool positions websockets.connect was called on
    r_outcome,      \* history: how the attempt at each pool position ended
    r_ended,        \* history: the accumulator when the receive loop of each
                    \* pool position was left by EOSE or timeout
    r_dropped,      \* history: some attempt of this call was left by an exception
                    \* while its accumulator held tags
    r_rx,           \* history: messages recv() returned in the current attempt
    r_conns,        \* pool positions whose connection is open (inside async with)
    r_last,         \* history: the message that ended the attempt just left, with
                    \* the attempt's sub_id; NoEnder if it ended without one, and
                    \* while a connection is open
    \* ---- fetch_all_events
    f_pc,           \* "idle" | "connect" | "send" | "recv" | "returned"
    f_relays,       \* the relays argument
    f_i,            \* position of relay_url in relays
    f_sub_id,       \* sub_id of the open connection
    events,         \* the batch being accumulated
    f_result,       \* the list returned, NoBatch before the return
    f_contacted,    \* history: positions websockets.connect was called on
    f_outcome,      \* history: how the attempt at each position ended
    f_delivered,    \* history: per position, the events the relay delivered
                    \* on the subscription of that attempt
    f_count,        \* history: messages recv() returned in the current attempt
    f_pubkey,       \* the pubkey argument of the call
    f_req,          \* the REQ sent on the open connection, NoReq before the send
    f_rx,           \* history: the messages themselves, while the attempt lasts
    f_conns,        \* positions whose connection is open (inside async with)
    f_last,         \* history: as r_last
    \* ---- broadcast_events / publish_to_relay
    b_pc,           \* "idle" | "gather" | "returned"
    b_relays,       \* the relays argument
    b_events,       \* the events argument
    t_pc,           \* per task: "created" | "connecting" | "open" | "done"
    t_sent,         \* per task: the events websocket.send delivered, in order
    t_attempts,     \* history, per task: calls of websockets.connect
    t_fail,         \* history, per task: "none" | "connect" | "send"
    \* ---- the relay on the open connection of fetch_relay_list / fetch_all_events
    l_quiet_at,     \* position of the relay that has stopped sending, 0 if none
    l_tick,         \* flips with every message consumed beyond the recorded ones
    \* ---- conkey.py: decode_basic_bech32 followed by encode_basic_bech32
    c_pc,           \* "idle" | "called" | "raised" | "decoded" | "encoded"
    c_value,        \* the identifier decoded
    c_prefix,       \* expected_prefix / prefix
    c_hex,          \* outcome of decode_basic_bech32
    c_back,         \* outcome of encode_basic_bech32
    \* ---- main of backup.py, restore.py, broadcast.py
    m_flow,         \* "none" | "backup" | "restore" | "rebroadcast"
    m_pc,           \* "idle" | "resolve" | "fetch" | "broadcast" | "ended"
    m_input,        \* npub_input
    m_pubkey,       \* pubkey
    m_relay_list,   \* what fetch_relay_list returned
    m_fetch_arg,    \* the relays handed to fetch_all_events
    m_events,       \* events (fetched, or loaded from the backup file)
    m_bcast_arg,    \* the relays handed to broadcast_events
    m_env,          \* restore: the backup folder and the user's selection
    m_msg,          \* the last message printed
    m_calls,        \* history: the functions main called, in order
    m_connected,    \* history: relays fetch_relay_list / fetch_all_events connected to
    m_files,        \* history: backup files written
    m_targets       \* history: relays publish_to_relay connected to

r_vars == << r_pc, r_i, r_sub_id, relay_list, r_result, r_via, r_contacted,
             r_outcome, r_ended, r_dropped, r_rx, r_conns, r_last >>

f_vars == << f_pc, f_relays, f_i, f_sub_id, events, f_result, f_contacted,
             f_outcome, f_delivered, f_count, f_pubkey, f_req, f_rx, f_conns, f_last >>

b_vars == << b_pc, b_relays, b_events, t_pc, t_sent, t_attempts, t_fail >>

l_vars == << l_quiet_at, l_tick >>

c_vars == << c_pc, c_value, c_prefix, c_hex, c_back >>

m_vars == << m_flow, m_pc, m_input, m_pubkey, m_relay_list, m_fetch_arg, m_events,
             m_bcast_arg, m_env, m_msg, m_calls, m_connected, m_files, m_targets >>

vars == << r_vars, f_vars, b_vars, l_vars, c_vars, m_vars >>

\* what the steps of one call leave alone: the state of the other calls
r_others == << f_vars, b_vars, l_vars, c_vars, m_vars >>
f_others == << r_vars, b_vars, l_vars, c_vars, m_vars >>
b_others == << r_vars, f_vars, l_vars, c_vars, m_vars >>
l_others == << r_vars, f_vars, b_vars, c_vars, m_vars >>
c_others == << r_vars, f_vars, b_vars, l_vars, m_vars >>
m_others == << r_vars, f_vars, b_vars, l_vars, c_vars >>

NoBatch == << "-" >>

NoResult == [read |-> << "-" >>, write |-> << "-" >>]
EmptyRelayList == [read |-> <<>>, write |-> <<>>]

\* ------------------------------------------------------ fetch_relay_list
\* src/backup.py:47, 96: message[0] == "EVENT" and message[1] == sub_id
IsSubEvent(message, sub) == message.type = "EVENT" /\ message.sub = sub

\* IsSubEose taking an EOSE of any subscription.
IsAnyEose(message, sub) == message.type = "EOSE"

\* src/backup.py:61, 99: message[0] == "EOSE" and message[1] == sub_id
IsSubEose(message, sub) == message.type = "EOSE" /\ message.sub = sub

\* The message that ended an attempt, with the attempt's sub_id.
Ender(message, sub) == [msg |-> message, sub |-> sub]

\* No attempt has ended yet, or the latest ended without a message (connect,
\* send or recv raised, or the idle timeout passed).
NoEnder ==
    Ender([type |-> "none", sub |-> None, kind |-> 0, tags |-> <<>>, id |-> None], None)

\* src/backup.py:29: async with websockets.connect(...) entered.
OpenConn(conns, i) == conns \cup {i}

\* CloseConn leaving the connection open.
CloseConnLeaks(conns, i) == conns

\* src/backup.py:29: the async with block is left (break, return or
\* exception): the connection is closed.
CloseConn(conns, i) == conns \ {i}

\* ApplyTag with the else branch appending to read only.
ApplyTagElseReadOnly(rl, tag) ==
    IF tag[1] = "r" /\ Len(tag) > 1
    THEN LET uri == tag[2]
             role == IF Len(tag) > 2 THEN tag[3] ELSE None
         IN  IF role = "read"
             THEN [rl EXCEPT !.read = Append(@, uri)]
             ELSE IF role = "write"
             THEN [rl EXCEPT !.write = Append(@, uri)]
             ELSE [rl EXCEPT !.read = Append(@, uri)]
    ELSE rl

\* src/backup.py:51-60: one tag of a kind-10002 event.
ApplyTag(rl, tag) ==
    IF tag[1] = "r" /\ Len(tag) > 1
    THEN LET uri == tag[2]
             role == IF Len(tag) > 2 THEN tag[3] ELSE None
         IN  IF role = "read"
             THEN [rl EXCEPT !.read = Append(@, uri)]
             ELSE IF role = "write"
             THEN [rl EXCEPT !.write = Append(@, uri)]
             ELSE [read |-> Append(rl.read, uri), write |-> Append(rl.write, uri)]
    ELSE rl

\* src/backup.py:50: the loop over the tags; tag[0] raises on an empty tag
\* and leaves the accumulator as the earlier tags made it.
RECURSIVE ParseTags(_, _)
ParseTags(rl, tags) ==
    IF tags = <<>> THEN [rl |-> rl, raised |-> FALSE]
    ELSE IF Len(Head(tags)) = 0 THEN [rl |-> rl, raised |-> TRUE]
    ELSE ParseTags(ApplyTag(rl, Head(tags)), Tail(tags))

\* HasRelays with "and" for "or".
HasRelaysBoth(rl) == rl.read # <<>> /\ rl.write # <<>>

\* HasRelays without the test: the first relay that answers wins.
HasRelaysAlways(rl) == TRUE

\* src/backup.py:64
HasRelays(rl) == rl.read # <<>> \/ rl.write # <<>>

\* DefaultRelays as an empty relay list.
DefaultRelaysEmpty == [read |-> <<>>, write |-> <<>>]

\* src/backup.py:72
DefaultRelays == [read |-> POPULAR_RELAYS, write |-> POPULAR_RELAYS]

\* src/backup.py:27: the for loop moves to position i, or falls off the pool
\* and returns the default relays (lines 70-72).
ResolveLoop(i) ==
    IF i <= Len(POPULAR_RELAYS)
    THEN /\ r_pc' = "connect"
         /\ r_i' = i
         /\ UNCHANGED << r_result, r_via >>
    ELSE /\ r_pc' = "returned"
         /\ r_i' = i
         /\ r_result' = DefaultRelays
         /\ r_via' = "fallback"

\* src/backup.py:37, 67: an exception leaves the block while the accumulator
\* of the attempt holds tags; before line 37 the attempt has no accumulator.
Dropped == r_dropped \/ (r_pc = "recv" /\ relay_list' # EmptyRelayList)

\* ResolveExcept without the handler: the exception leaves the call.
ResolveExceptFatal(how) ==
    /\ r_outcome' = [r_outcome EXCEPT ![r_i] = how]
    /\ r_rx' = <<>>
    /\ r_pc' = "raised"
    /\ r_conns' = CloseConn(r_conns, r_i)
    /\ r_dropped' = Dropped
    /\ UNCHANGED << r_ended, r_i, r_result, r_via >>

\* src/backup.py:67-68: except Exception: print, then the next relay.
ResolveExcept(how) ==
    /\ r_outcome' = [r_outcome EXCEPT ![r_i] = how]
    /\ UNCHANGED r_ended
    /\ r_dropped' = Dropped
    /\ r_rx' = <<>>
    /\ r_conns' = CloseConn(r_conns, r_i)
    /\ ResolveLoop(r_i + 1)

\* src/backup.py:64-65: after the receive loop.
ResolveAfterLoop(how, rx) ==
    /\ r_outcome' = [r_outcome EXCEPT ![r_i] = how]
    /\ r_ended' = [r_ended EXCEPT ![r_i] = relay_list]
    /\ UNCHANGED r_dropped
    /\ r_conns' = CloseConn(r_conns, r_i)
    /\ IF HasRelays(relay_list)
       THEN /\ r_pc' = "returned"
            /\ r_result' = relay_list
            /\ r_via' = "relay"
            /\ r_rx' = rx
            /\ UNCHANGED r_i
       ELSE /\ r_rx' = <<>>
            /\ ResolveLoop(r_i + 1)

\* src/backup.py:23
ResolveCall ==
    /\ r_pc = "idle"
    /\ ResolveLoop(1)
    /\ UNCHANGED << r_sub_id, relay_list, r_contacted, r_outcome, r_ended, r_dropped, r_rx,
                    r_conns >>
    /\ UNCHANGED r_last
    /\ UNCHANGED r_others

\* src/backup.py:29-30: the connection opens, sub_id is drawn.
ResolveConnectOk ==
    /\ r_pc = "connect"
    /\ r_contacted' = Append(r_contacted, r_i)
    /\ \E s \in SubIds : r_sub_id' = s
    /\ r_pc' = "send"
    /\ r_conns' = OpenConn(r_conns, r_i)
    /\ UNCHANGED << r_i, relay_list, r_result, r_via, r_outcome, r_ended, r_dropped,
                    r_rx >>
    /\ r_last' = NoEnder
    /\ UNCHANGED r_others

\* src/backup.py:29, 67: websockets.connect raises.
ResolveConnectFail ==
    /\ r_pc = "connect"
    /\ r_contacted' = Append(r_contacted, r_i)
    /\ ResolveExcept("connfail")
    /\ UNCHANGED << r_sub_id, relay_list >>
    /\ r_last' = NoEnder
    /\ UNCHANGED r_others

\* ResolveSendOk with the accumulator created once, before the loop over the
\* relays: tags of an abandoned attempt stay in it.
ResolveSendOkKeepsList ==
    /\ r_pc = "send"
    /\ UNCHANGED relay_list
    /\ r_rx' = <<>>
    /\ r_pc' = "recv"
    /\ UNCHANGED << r_i, r_sub_id, r_result, r_via, r_contacted, r_outcome, r_ended,
                    r_dropped,
                    r_conns >>
    /\ UNCHANGED r_last
    /\ UNCHANGED r_others

\* src/backup.py:35-37: the REQ is sent, the accumulator starts empty.
ResolveSendOk ==
    /\ r_pc = "send"
    /\ relay_list' = EmptyRelayList
    /\ r_rx' = <<>>
    /\ r_pc' = "recv"
    /\ UNCHANGED << r_i, r_sub_id, r_result, r_via, r_contacted, r_outcome, r_ended,
                    r_dropped,
                    r_conns >>
    /\ UNCHANGED r_last
    /\ UNCHANGED r_others

\* src/backup.py:35, 67: websocket.send raises.
ResolveSendFail ==
    /\ r_pc = "send"
    /\ ResolveExcept("exception")
    /\ UNCHANGED << r_sub_id, relay_list, r_contacted >>
    /\ r_last' = NoEnder
    /\ UNCHANGED r_others

\* src/backup.py:40-62: one message arrives within the timeout.
ResolveRecv ==
    /\ r_pc = "recv"
    /\ Len(r_rx) < MaxResolveMsgs
    /\ \E message \in ResolverMsgs(r_sub_id) :
        LET rx == Append(r_rx, message)
            ignored == /\ r_rx' = rx
                       /\ UNCHANGED << r_pc, r_i, r_result, r_via, r_outcome, r_ended,
                                       r_dropped,
                                       relay_list, r_conns, r_last >>
        IN  IF message.type = "BAD"
            THEN /\ UNCHANGED relay_list
                 /\ ResolveExcept("exception")
                 /\ r_last' = Ender(message, r_sub_id)
            ELSE IF IsSubEvent(message, r_sub_id)
            THEN IF message.kind = RelayListKind
                 THEN LET p == ParseTags(relay_list, message.tags)
                      IN  /\ relay_list' = p.rl
                          /\ IF p.raised
                             THEN /\ ResolveExcept("exception")
                                  /\ r_last' = Ender(message, r_sub_id)
                             ELSE /\ r_rx' = rx
                                  /\ UNCHANGED << r_pc, r_i, r_result, r_via, r_outcome,
                                                  r_ended, r_dropped, r_conns, r_last >>
                 ELSE ignored
            ELSE IF IsSubEose(message, r_sub_id)
            THEN /\ ResolveAfterLoop("eose", rx)
                 /\ r_last' = Ender(message, r_sub_id)
                 /\ UNCHANGED relay_list
            ELSE ignored
    /\ UNCHANGED << r_sub_id, r_contacted >>
    /\ UNCHANGED r_others

\* src/backup.py:41-43: asyncio.TimeoutError breaks the loop.
ResolveTimeout ==
    /\ r_pc = "recv"
    /\ ResolveAfterLoop("timeout", r_rx)
    /\ UNCHANGED << r_sub_id, relay_list, r_contacted >>
    /\ r_last' = NoEnder
    /\ UNCHANGED r_others

\* src/backup.py:40, 67: recv raises (the relay closed the connection).
ResolveRecvFail ==
    /\ r_pc = "recv"
    /\ UNCHANGED << r_sub_id, relay_list, r_contacted >>
    /\ ResolveExcept("exception")
    /\ r_last' = NoEnder
    /\ UNCHANGED r_others

\* ------------------------------------------------------ fetch_all_events
\* AppendEvent skipping an event the batch already holds.
AppendEventDedup(batch, event) ==
    IF \E k \in 1..Len(batch) : batch[k] = event THEN batch ELSE Append(batch, event)

\* src/backup.py:97-98
AppendEvent(batch, event) == Append(batch, event)

\* FetchLoop with the resolver's policy: stop once the batch is non-empty.
FetchLoopFirstSuccess(relays, i, batch) ==
    IF i <= Len(relays) /\ batch = <<>>
    THEN /\ f_pc' = "connect"
         /\ f_i' = i
         /\ UNCHANGED f_result
    ELSE /\ f_pc' = "returned"
         /\ f_i' = i
         /\ f_result' = batch

\* src/backup.py:79, 105: the for loop moves to position i, or ends and the
\* batch is returned.
FetchLoop(relays, i, batch) ==
    IF i <= Len(relays)
    THEN /\ f_pc' = "connect"
         /\ f_i' = i
         /\ UNCHANGED f_result
    ELSE /\ f_pc' = "returned"
         /\ f_i' = i
         /\ f_result' = batch

\* FetchExcept discarding the batch gathered so far.
FetchExceptDropsBatch(how) ==
    /\ f_outcome' = [f_outcome EXCEPT ![f_i] = how]
    /\ events' = <<>>
    /\ f_rx' = <<>>
    /\ f_conns' = CloseConn(f_conns, f_i)
    /\ FetchLoop(f_relays, f_i + 1, <<>>)

\* src/backup.py:102-103: except Exception: print, then the next relay.
FetchExcept(how) ==
    /\ f_outcome' = [f_outcome EXCEPT ![f_i] = how]
    /\ UNCHANGED events
    /\ f_rx' = <<>>
    /\ f_conns' = CloseConn(f_conns, f_i)
    /\ FetchLoop(f_relays, f_i + 1, events)

\* src/backup.py:93, 100: break leaves the receive loop and the connection.
FetchBreak(how) ==
    /\ f_outcome' = [f_outcome EXCEPT ![f_i] = how]
    /\ UNCHANGED events
    /\ f_rx' = <<>>
    /\ f_conns' = CloseConn(f_conns, f_i)
    /\ FetchLoop(f_relays, f_i + 1, events)

\* src/backup.py:74-78
FetchCall ==
    /\ f_pc = "idle"
    /\ \E relays \in FetchInputs :
        /\ f_relays' = relays
        /\ f_outcome' = [i \in 1..Len(relays) |-> "none"]
        /\ f_delivered' = [i \in 1..Len(relays) |-> <<>>]
        /\ events' = <<>>
        /\ FetchLoop(relays, 1, <<>>)
    /\ UNCHANGED << f_sub_id, f_contacted, f_count, f_rx, f_conns >>
    /\ UNCHANGED f_last
    /\ \E pubkey \in Pubkeys : f_pubkey' = pubkey
    /\ UNCHANGED f_req
    /\ UNCHANGED f_others

\* src/backup.py:81-82: the connection opens, sub_id is drawn.
FetchConnectOk ==
    /\ f_pc = "connect"
    /\ f_contacted' = Append(f_contacted, f_i)
    /\ \E s \in SubIds : f_sub_id' = s
    /\ f_pc' = "send"
    /\ f_conns' = OpenConn(f_conns, f_i)
    /\ UNCHANGED << f_relays, f_i, events, f_result, f_outcome, f_delivered, f_count,
                    f_rx >>
    /\ f_last' = NoEnder
    /\ f_req' = NoReq
    /\ UNCHANGED f_pubkey
    /\ UNCHANGED f_others

\* src/backup.py:81, 102: websockets.connect raises.
FetchConnectFail ==
    /\ f_pc = "connect"
    /\ f_contacted' = Append(f_contacted, f_i)
    /\ FetchExcept("connfail")
    /\ UNCHANGED << f_relays, f_sub_id, f_delivered, f_count >>
    /\ f_last' = NoEnder
    /\ UNCHANGED << f_pubkey, f_req >>
    /\ UNCHANGED f_others

\* src/backup.py:84-87: the REQ is sent.
FetchSendOk ==
    /\ f_pc = "send"
    /\ f_pc' = "recv"
    /\ f_count' = 0
    /\ UNCHANGED << f_relays, f_i, f_sub_id, events, f_result, f_contacted,
                    f_outcome, f_delivered, f_rx, f_conns >>
    /\ UNCHANGED f_last
    /\ f_req' = FetchRequest(f_sub_id, f_pubkey)
    /\ UNCHANGED f_pubkey
    /\ UNCHANGED f_others

\* src/backup.py:87, 102: websocket.send raises.
FetchSendFail ==
    /\ f_pc = "send"
    /\ FetchExcept("exception")
    /\ UNCHANGED << f_relays, f_sub_id, f_contacted, f_delivered, f_count >>
    /\ f_last' = NoEnder
    /\ UNCHANGED << f_pubkey, f_req >>
    /\ UNCHANGED f_others

\* src/backup.py:91-100: one message arrives within the timeout.
FetchRecv ==
    /\ f_pc = "recv"
    /\ \E message \in FetchMsgs(f_sub_id) :
        /\ \/ f_count < MaxFetchMsgs
           \/ message.type = "BAD"
           \/ (message.type = "EOSE" /\ message.sub = f_sub_id)
        /\ f_delivered' =
              IF message.type = "EVENT" /\ message.sub = f_sub_id
              THEN [f_delivered EXCEPT ![f_i] = Append(@, message.id)]
              ELSE f_delivered
        /\ IF message.type = "BAD"
           THEN /\ FetchExcept("exception")
                /\ f_last' = Ender(message, f_sub_id)
                /\ f_count' = 0
           ELSE IF IsSubEvent(message, f_sub_id)
           THEN /\ events' = AppendEvent(events, message.id)
                /\ f_count' = f_count + 1
                /\ f_rx' = Append(f_rx, message)
                /\ UNCHANGED << f_pc, f_i, f_result, f_outcome, f_conns, f_last >>
           ELSE IF IsSubEose(message, f_sub_id)
           THEN /\ FetchBreak("eose")
                /\ f_last' = Ender(message, f_sub_id)
                /\ f_count' = 0
           ELSE /\ f_count' = f_count + 1
                /\ f_rx' = Append(f_rx, message)
                /\ UNCHANGED << f_pc, f_i, f_result, f_outcome, events, f_conns,
                                f_last >>
    /\ UNCHANGED << f_relays, f_sub_id, f_contacted >>
    /\ UNCHANGED << f_pubkey, f_req >>
    /\ UNCHANGED f_others

\* FetchTimeout with the handler going round the loop again instead of
\* leaving it.
FetchTimeoutContinues ==
    /\ f_pc = "recv"
    /\ l_tick' = ~l_tick
    /\ UNCHANGED << l_others, l_quiet_at >>

\* src/backup.py:92-93: asyncio.TimeoutError breaks the loop.
FetchTimeout ==
    /\ f_pc = "recv"
    /\ FetchBreak("timeout")
    /\ f_count' = 0
    /\ UNCHANGED << f_relays, f_sub_id, f_contacted, f_delivered >>
    /\ f_last' = NoEnder
    /\ UNCHANGED << f_pubkey, f_req >>
    /\ UNCHANGED f_others

\* src/backup.py:91, 102: recv raises (the relay closed the connection).
FetchRecvFail ==
    /\ f_pc = "recv"
    /\ FetchExcept("exception")
    /\ f_count' = 0
    /\ UNCHANGED << f_relays, f_sub_id, f_contacted, f_delivered >>
    /\ f_last' = NoEnder
    /\ UNCHANGED << f_pubkey, f_req >>
    /\ UNCHANGED f_others

\* ---------------------------------------- broadcast_events, publish_to_relay
Tasks == DOMAIN t_pc

\* TaskExcept with the failure cancelling the sibling tasks.
TaskExceptCancelsAll(i, why) ==
    /\ t_pc' = [j \in DOMAIN t_pc |-> "done"]
    /\ t_fail' = [t_fail EXCEPT ![i] = why]

\* src/restore.py:93-94: except Exception: print; the coroutine of this
\* relay ends, no other coroutine is touched.
TaskExcept(i, why) ==
    /\ t_pc' = [t_pc EXCEPT ![i] = "done"]
    /\ t_fail' = [t_fail EXCEPT ![i] = why]

\* src/restore.py:96-101: one coroutine per entry of relays, handed to
\* asyncio.gather.
BroadcastCall ==
    /\ b_pc = "idle"
    /\ \E relays \in SeqsUpTo(RelayURLs, MaxBroadcastRelays),
          evs \in SeqsUpTo(EventIds, MaxBroadcastEvents) :
        /\ b_relays' = relays
        /\ b_events' = evs
        /\ t_pc' = [i \in 1..Len(relays) |-> "created"]
        /\ t_sent' = [i \in 1..Len(relays) |-> <<>>]
        /\ t_attempts' = [i \in 1..Len(relays) |-> 0]
        /\ t_fail' = [i \in 1..Len(relays) |-> "none"]
    /\ b_pc' = "gather"
    /\ UNCHANGED b_others

\* TaskConnect awaited one relay after the other.
TaskConnectSerial(i) ==
    /\ b_pc = "gather"
    /\ t_pc[i] = "created"
    /\ \A j \in DOMAIN t_pc : j < i => t_pc[j] = "done"
    /\ t_pc' = [t_pc EXCEPT ![i] = "connecting"]
    /\ t_attempts' = [t_attempts EXCEPT ![i] = @ + 1]
    /\ UNCHANGED << b_pc, b_relays, b_events, t_sent, t_fail >>
    /\ UNCHANGED b_others

\* src/restore.py:88: the task runs up to its first await, the connect.
TaskConnect(i) ==
    /\ b_pc = "gather"
    /\ t_pc[i] = "created"
    /\ t_pc' = [t_pc EXCEPT ![i] = "connecting"]
    /\ t_attempts' = [t_attempts EXCEPT ![i] = @ + 1]
    /\ UNCHANGED << b_pc, b_relays, b_events, t_sent, t_fail >>
    /\ UNCHANGED b_others

\* src/restore.py:88: the connection opens.
TaskConnectOk(i) ==
    /\ t_pc[i] = "connecting"
    /\ t_pc' = [t_pc EXCEPT ![i] = "open"]
    /\ UNCHANGED << b_pc, b_relays, b_events, t_sent, t_attempts, t_fail >>
    /\ UNCHANGED b_others

\* src/restore.py:88, 93: websockets.connect raises.
TaskConnectFail(i) ==
    /\ t_pc[i] = "connecting"
    /\ TaskExcept(i, "connect")
    /\ UNCHANGED << b_pc, b_relays, b_events, t_sent, t_attempts >>
    /\ UNCHANGED b_others

\* TaskSendOk walking the input from its end.
TaskSendOkReversed(i) ==
    /\ t_pc[i] = "open"
    /\ Len(t_sent[i]) < Len(b_events)
    /\ t_sent' = [t_sent EXCEPT ![i] = Append(@, b_events[Len(b_events) - Len(@)])]
    /\ UNCHANGED << b_pc, b_relays, b_events, t_pc, t_attempts, t_fail >>
    /\ UNCHANGED b_others

\* src/restore.py:89-92: the next event of the input is sent.
TaskSendOk(i) ==
    /\ t_pc[i] = "open"
    /\ Len(t_sent[i]) < Len(b_events)
    /\ t_sent' = [t_sent EXCEPT ![i] = Append(@, b_events[Len(@) + 1])]
    /\ UNCHANGED << b_pc, b_relays, b_events, t_pc, t_attempts, t_fail >>
    /\ UNCHANGED b_others

\* src/restore.py:92-93: websocket.send raises.
TaskSendFail(i) ==
    /\ t_pc[i] = "open"
    /\ Len(t_sent[i]) < Len(b_events)
    /\ TaskExcept(i, "send")
    /\ UNCHANGED << b_pc, b_relays, b_events, t_sent, t_attempts >>
    /\ UNCHANGED b_others

\* src/restore.py:88-92: the for loop is over, the connection is closed.
TaskClose(i) ==
    /\ t_pc[i] = "open"
    /\ Len(t_sent[i]) = Len(b_events)
    /\ t_pc' = [t_pc EXCEPT ![i] = "done"]
    /\ UNCHANGED << b_pc, b_relays, b_events, t_sent, t_attempts, t_fail >>
    /\ UNCHANGED b_others

\* BroadcastReturn as soon as one task is done.
BroadcastReturnFirstDone ==
    /\ b_pc = "gather"
    /\ \E i \in Tasks : t_pc[i] = "done"
    /\ b_pc' = "returned"
    /\ UNCHANGED << b_relays, b_events, t_pc, t_sent, t_attempts, t_fail >>
    /\ UNCHANGED b_others

\* src/restore.py:101: gather resumes its caller once every task is done.
BroadcastReturn ==
    /\ b_pc = "gather"
    /\ \A i \in Tasks : t_pc[i] = "done"
    /\ b_pc' = "returned"
    /\ UNCHANGED << b_relays, b_events, t_pc, t_sent, t_attempts, t_fail >>
    /\ UNCHANGED b_others

\* ------------------------------------------------------------- conkey.py
\* An identifier is a bech32 string: a human-readable part, the separator, the
\* data part as 5-bit groups and a six-character checksum.  The model keeps
\* the human-readable part in lower case, the case the string is written in,
\* the 5-bit groups before the checksum, and whether the checksum verifies
\* ("none": the string has no separator followed by six characters).
Bech32String(case, hrp, data, sum) ==
    [case |-> case, hrp |-> hrp, data |-> data, sum |-> sum]

EmptyString == Bech32String("lower", "", <<>>, "none")

\* no string yet
NoString == Bech32String("lower", "-", <<>>, "none")

\* the kinds conkey.py handles with the basic codec, src/conkey.py:74-79
Prefixes == {"npub", "nsec", "note"}

\* 5-bit groups the inputs are built from
DataValues == {0, 1, 8, 31}

Strings ==
    {EmptyString}
    \cup { Bech32String(case, hrp, data, sum) :
             case \in {"lower", "upper", "mixed"},
             hrp \in Prefixes,
             data \in SeqsUpTo(DataValues, MaxDataLen),
             sum \in {"ok", "bad"} }

\* x.lower()
Lower(x) == [x EXCEPT !.case = "lower"]

\* What a call returns or raises.
Return(val) == [ok |-> TRUE, err |-> None, val |-> val]
Raise(err) == [ok |-> FALSE, err |-> err, val |-> <<>>]
NoOutcome == [ok |-> FALSE, err |-> "-", val |-> <<>>]

RECURSIVE Pow2(_)
Pow2(n) == IF n = 0 THEN 1 ELSE 2 * Pow2(n - 1)

\* src/conkey.py:5 bech32_decode (package bech32): (None, None) for a string
\* of mixed case, without separator or human-readable part, or whose checksum
\* does not verify; otherwise the string is lower-cased and split.
bech32_decode(bech) ==
    IF bech.case = "mixed" \/ bech.hrp = "" \/ bech.sum # "ok"
    THEN [hrp |-> None, data |-> <<>>]
    ELSE [hrp |-> bech.hrp, data |-> bech.data]

\* src/conkey.py:20 bech32_encode (package bech32): hrp, separator, data and
\* the checksum computed over them, in lower case.
bech32_encode(hrp, data) == Bech32String("lower", hrp, data, "ok")

\* convertbits, inner loop: while bits >= tobits.
RECURSIVE Drain(_, _, _, _)
Drain(acc, bits, tobits, ret) ==
    IF bits >= tobits
    THEN Drain(acc, bits - tobits, tobits,
               Append(ret, (acc \div Pow2(bits - tobits)) % Pow2(tobits)))
    ELSE [bits |-> bits, ret |-> ret]

\* convertbits, outer loop: for value in data.
RECURSIVE ConvertLoop(_, _, _, _, _, _)
ConvertLoop(data, frombits, tobits, acc, bits, ret) ==
    IF data = <<>> THEN [ok |-> TRUE, acc |-> acc, bits |-> bits, ret |-> ret]
    ELSE LET value == Head(data)
         IN  IF value < 0 \/ value >= Pow2(frombits)
             THEN [ok |-> FALSE, acc |-> acc, bits |-> bits, ret |-> ret]
             ELSE LET acc2 == (acc * Pow2(frombits) + value) % Pow2(frombits + tobits - 1)
                      d == Drain(acc2, bits + frombits, tobits, ret)
                  IN  ConvertLoop(Tail(data), frombits, tobits, acc2, d.bits, d.ret)

\* convertbits padding an incomplete group whatever pad says.
convertbitsAlwaysPads(data, frombits, tobits, pad) ==
    LET r == ConvertLoop(data, frombits, tobits, 0, 0, <<>>)
        rest == (r.acc * Pow2(tobits - r.bits)) % Pow2(tobits)
    IN  IF ~r.ok THEN [ok |-> FALSE, ret |-> <<>>]
        ELSE IF r.bits # 0 THEN [ok |-> TRUE, ret |-> Append(r.ret, rest)]
        ELSE [ok |-> TRUE, ret |-> r.ret]

\* src/conkey.py:8, 19 convertbits (package bech32): regroups data from
\* frombits-wide to tobits-wide units; with pad the last incomplete unit is
\* filled with zero bits, without pad leftover bits must be fewer than
\* frombits and all zero, otherwise the result is None (ok = FALSE).
convertbits(data, frombits, tobits, pad) ==
    LET r == ConvertLoop(data, frombits, tobits, 0, 0, <<>>)
        rest == (r.acc * Pow2(tobits - r.bits)) % Pow2(tobits)
    IN  IF ~r.ok THEN [ok |-> FALSE, ret |-> <<>>]
        ELSE IF pad
        THEN IF r.bits # 0 THEN [ok |-> TRUE, ret |-> Append(r.ret, rest)]
                           ELSE [ok |-> TRUE, ret |-> r.ret]
        ELSE IF r.bits >= frombits \/ rest # 0
        THEN [ok |-> FALSE, ret |-> <<>>]
        ELSE [ok |-> TRUE, ret |-> r.ret]

\* src/conkey.py:11 bytes(decoded).hex(): two hex digits for each byte.
RECURSIVE Hex(_)
Hex(bytes) ==
    IF bytes = <<>> THEN <<>>
    ELSE << Head(bytes) \div 16, Head(bytes) % 16 >> \o Hex(Tail(bytes))

\* src/conkey.py:16 bytes.fromhex(hexstr), for an even number of digits.
RECURSIVE FromHex(_)
FromHex(hexstr) ==
    IF Len(hexstr) < 2 THEN <<>>
    ELSE << hexstr[1] * 16 + hexstr[2] >> \o FromHex(Tail(Tail(hexstr)))

\* src/conkey.py:4-11
decode_basic_bech32(value, expected_prefix) ==
    LET d == bech32_decode(value)
    IN  IF d.hrp # expected_prefix
        THEN Raise("ValueError: format")
        ELSE LET decoded == convertbits(d.data, 5, 8, FALSE)
             IN  IF ~decoded.ok
                 THEN Raise("ValueError: data")
                 ELSE Return(Hex(decoded.ret))

\* src/conkey.py:14-20
encode_basic_bech32(hexstr, prefix) ==
    IF Len(hexstr) % 2 # 0
    THEN Raise("ValueError: hex")
    ELSE Return(bech32_encode(prefix, convertbits(FromHex(hexstr), 8, 5, TRUE).ret))

\* decode_basic_bech32(value, expected_prefix) is called.
CodecCall ==
    /\ c_pc = "idle"
    /\ \E x \in Strings, p \in Prefixes :
        /\ c_value' = x
        /\ c_prefix' = p
    /\ c_pc' = "called"
    /\ UNCHANGED << c_hex, c_back >>
    /\ UNCHANGED c_others

\* src/conkey.py:4-11: the call returns the hex string or raises.
CodecDecode ==
    /\ c_pc = "called"
    /\ c_hex' = decode_basic_bech32(c_value, c_prefix)
    /\ c_pc' = IF c_hex'.ok THEN "decoded" ELSE "raised"
    /\ UNCHANGED << c_value, c_prefix, c_back >>
    /\ UNCHANGED c_others

\* src/conkey.py:14-20: the hex string is encoded under the same prefix.
CodecEncode ==
    /\ c_pc = "decoded"
    /\ c_back' = encode_basic_bech32(c_hex.val, c_prefix)
    /\ c_pc' = "encoded"
    /\ UNCHANGED << c_value, c_prefix, c_hex >>
    /\ UNCHANGED c_others

\* ------------------------------------------ main: backup, restore, rebroadcast
\* The three scripts are modelled from the call of main().  (backup.py itself
\* stops before that: line 7 imports decode_npub from conkey, which defines no
\* such name; its main is modelled with the decode_npub of restore.py:20-31.)
\* The awaited calls are summarised by what they return and whom they contact.

\* src/broadcast.py:23-26
BROADCAST_TO_RELAYS == << "wss://relay.primal.net", "ws://localhost:4869" >>

\* no list handed over yet
NoArg == << "-" >>

\* The identifiers a user may type: nothing, a valid npub, an npub in upper
\* case, an nsec, an npub whose payload does not regroup, one whose checksum
\* fails, one of mixed case.
MainInputs ==
    { EmptyString,
      Bech32String("lower", "npub", <<31, 8>>, "ok"),
      Bech32String("upper", "npub", <<31, 8>>, "ok"),
      Bech32String("lower", "nsec", <<31, 8>>, "ok"),
      Bech32String("lower", "npub", <<1>>, "ok"),
      Bech32String("lower", "npub", <<31, 8>>, "bad"),
      Bech32String("mixed", "npub", <<31, 8>>, "ok") }

\* src/backup.py:64-65, 72: what fetch_relay_list can return: the lists of a
\* relay, of which one may be empty, or the bootstrap pool for both.
ResolverResults ==
    { [read |-> << "wss://a" >>, write |-> << "wss://b" >>],
      [read |-> << "wss://a" >>, write |-> <<>>],
      [read |-> <<>>, write |-> << "wss://b" >>],
      [read |-> << "wss://a", "wss://b" >>, write |-> << "wss://a", "wss://b" >>],
      [read |-> POPULAR_RELAYS, write |-> POPULAR_RELAYS] }

Range(q) == { q[k] : k \in 1..Len(q) }

\* src/restore.py:124-150: the backup folder as main finds it, the number the
\* user types (num = FALSE: not a number) and the content of the file chosen.
Envs ==
    [ folder : BOOLEAN,
      files : 0..MaxBackupFiles,
      sel : [num : BOOLEAN, n : 0..(MaxBackupFiles + 1)],
      loads : BOOLEAN,
      content : SeqsUpTo(EventIds, MaxFlowEvents) ]

NoEnv == [folder |-> FALSE, files |-> 0, sel |-> [num |-> FALSE, n |-> 0],
          loads |-> FALSE, content |-> <<>>]

\* decode_npub without the test of the prefix.
decode_npubAnyPrefix(npub) ==
    LET decoded == convertbits(npub.data, 5, 8, FALSE)
    IN  IF ~decoded.ok
        THEN Raise("ValueError: data")
        ELSE Return(Hex(decoded.ret))

\* src/restore.py:20-31, src/broadcast.py:28-39
decode_npub(npub) ==
    LET d == bech32_decode(npub)
    IN  IF d.hrp # "npub"
        THEN Raise("ValueError: format")
        ELSE LET decoded == convertbits(d.data, 5, 8, FALSE)
             IN  IF ~decoded.ok
                 THEN Raise("ValueError: data")
                 ELSE Return(Hex(decoded.ret))

\* main ends: return, or the except clause of main.
MainEnds(msg) ==
    /\ m_pc' = "ended"
    /\ m_msg' = msg

\* src/backup.py:128-139, src/restore.py:106-116, src/broadcast.py:149-159:
\* the identifier is read and decoded; fetch_relay_list is awaited.
MainStart(flow) ==
    /\ m_pc = "idle"
    /\ m_flow' = flow
    /\ \E x \in MainInputs :
        /\ m_input' = x
        /\ IF x = EmptyString
           THEN /\ MainEnds("Invalid npub key.")
                /\ UNCHANGED << m_pubkey, m_calls >>
           ELSE LET r == decode_npub(x)
                IN  IF ~r.ok
                    THEN /\ MainEnds("An error occurred")
                         /\ UNCHANGED << m_pubkey, m_calls >>
                    ELSE /\ m_pubkey' = r.val
                         /\ m_pc' = "resolve"
                         /\ m_calls' = Append(m_calls, "fetch_relay_list")
                         /\ UNCHANGED m_msg
    /\ UNCHANGED << m_relay_list, m_fetch_arg, m_events, m_bcast_arg, m_env,
                    m_connected, m_files, m_targets >>
    /\ UNCHANGED m_others

BackupStart == MainStart("backup")

RestoreStart == MainStart("restore")

RebroadcastStart == MainStart("rebroadcast")

\* src/backup.py:23-72: fetch_relay_list returns, having connected to the
\* first j relays of the pool.
ResolverReturns(rl) ==
    /\ m_relay_list' = rl
    /\ \E j \in 1..Len(POPULAR_RELAYS) :
        /\ (rl.read = POPULAR_RELAYS /\ rl.write = POPULAR_RELAYS) => j = Len(POPULAR_RELAYS)
        /\ m_connected' = m_connected \cup Range(SubSeq(POPULAR_RELAYS, 1, j))

\* fetch_all_events is awaited with relays.
FetcherCalled(relays) ==
    /\ m_fetch_arg' = relays
    /\ m_calls' = Append(m_calls, "fetch_all_events")
    /\ m_pc' = "fetch"

\* src/backup.py:74-105: fetch_all_events returns, having connected to every
\* relay handed to it; without relays it returns no events.
FetcherReturns ==
    /\ \E evs \in SeqsUpTo(EventIds, MaxFlowEvents) :
        /\ m_fetch_arg = <<>> => evs = <<>>
        /\ m_events' = evs
    /\ m_connected' = m_connected \cup Range(m_fetch_arg)

\* broadcast_events is awaited with relays and events.
BroadcasterCalled(relays) ==
    /\ m_bcast_arg' = relays
    /\ m_calls' = Append(m_calls, "broadcast_events")
    /\ m_pc' = "broadcast"

\* src/restore.py:83-101: broadcast_events returns, each publish_to_relay
\* having connected to its relay.
BroadcasterReturns ==
    /\ m_targets' = m_targets \cup Range(m_bcast_arg)

\* src/backup.py:139-145: read_relays = relay_list.get("read", []);
\* fetch_all_events(read_relays, pubkey) is awaited.
BackupResolved ==
    /\ m_flow = "backup"
    /\ m_pc = "resolve"
    /\ \E rl \in ResolverResults :
        /\ ResolverReturns(rl)
        /\ FetcherCalled(rl.read)
    /\ UNCHANGED << m_flow, m_input, m_pubkey, m_events, m_bcast_arg, m_env, m_msg,
                    m_files, m_targets >>
    /\ UNCHANGED m_others

\* the test of line 148 always true
ShouldSaveAlways(evs) == TRUE

\* src/backup.py:148: if events:
ShouldSave(evs) == evs # <<>>

\* src/backup.py:145-152, 107-124: the events arrive; they are saved if there
\* are any (the file is written unless open or dump fails).
BackupFetched ==
    /\ m_flow = "backup"
    /\ m_pc = "fetch"
    /\ FetcherReturns
    /\ IF ShouldSave(m_events')
       THEN /\ m_calls' = Append(m_calls, "save_events_to_backup")
            /\ \E written \in BOOLEAN :
                IF written
                THEN m_files' = m_files + 1 /\ MainEnds("Events successfully saved")
                ELSE m_files' = m_files /\ MainEnds("Failed to save events")
       ELSE /\ MainEnds("No events found to backup.")
            /\ UNCHANGED << m_calls, m_files >>
    /\ UNCHANGED << m_flow, m_input, m_pubkey, m_relay_list, m_fetch_arg, m_bcast_arg,
                    m_env, m_targets >>
    /\ UNCHANGED m_others

\* src/restore.py:139-146: int(selection) - 1 is an index of backup_files.
ValidSelection(env) == env.sel.num /\ 1 <= env.sel.n /\ env.sel.n <= env.files

\* src/restore.py:116-159: the relay list arrives; the write list, the backup
\* folder, its files, the selection and the file's content are looked at in
\* this order, and broadcast_events(write_relays, events) is awaited.
RestoreResolved ==
    /\ m_flow = "restore"
    /\ m_pc = "resolve"
    /\ \E rl \in ResolverResults, env \in Envs :
        /\ ResolverReturns(rl)
        /\ m_env' = env
        /\ IF rl.write = <<>>
           THEN MainEnds("No write relays found.")
                /\ UNCHANGED << m_events, m_bcast_arg, m_calls >>
           ELSE IF ~env.folder
           THEN MainEnds("Backup folder does not exist.")
                /\ UNCHANGED << m_events, m_bcast_arg, m_calls >>
           ELSE IF env.files = 0
           THEN MainEnds("No backup files found in the backup folder.")
                /\ UNCHANGED << m_events, m_bcast_arg, m_calls >>
           ELSE IF ~ValidSelection(env)
           THEN MainEnds("Invalid selection.")
                /\ UNCHANGED << m_events, m_bcast_arg, m_calls >>
           ELSE IF ~env.loads
           THEN MainEnds("An error occurred")
                /\ UNCHANGED << m_events, m_bcast_arg, m_calls >>
           ELSE /\ m_events' = env.content
                /\ IF env.content = <<>>
                   THEN MainEnds("No events found in the backup file.")
                        /\ UNCHANGED << m_bcast_arg, m_calls >>
                   ELSE BroadcasterCalled(rl.write) /\ UNCHANGED m_msg
    /\ UNCHANGED << m_flow, m_input, m_pubkey, m_fetch_arg, m_files, m_targets >>
    /\ UNCHANGED m_others

\* src/restore.py:159-160: broadcast_events returns.
RestoreBroadcast ==
    /\ m_flow = "restore"
    /\ m_pc = "broadcast"
    /\ BroadcasterReturns
    /\ MainEnds("Events have been successfully published to the relay list.")
    /\ UNCHANGED << m_flow, m_input, m_pubkey, m_relay_list, m_fetch_arg, m_events,
                    m_bcast_arg, m_env, m_calls, m_connected, m_files >>
    /\ UNCHANGED m_others

\* src/broadcast.py:159-165: fetch_all_events(relay_lists['write'], pubkey)
\* is awaited.
RebroadcastResolved ==
    /\ m_flow = "rebroadcast"
    /\ m_pc = "resolve"
    /\ \E rl \in ResolverResults :
        /\ ResolverReturns(rl)
        /\ FetcherCalled(rl.write)
    /\ UNCHANGED << m_flow, m_input, m_pubkey, m_events, m_bcast_arg, m_env, m_msg,
                    m_files, m_targets >>
    /\ UNCHANGED m_others

\* src/broadcast.py:165-174: the events arrive; without events main returns,
\* otherwise broadcast_events(BROADCAST_TO_RELAYS, events) is awaited.
RebroadcastFetched ==
    /\ m_flow = "rebroadcast"
    /\ m_pc = "fetch"
    /\ FetcherReturns
    /\ IF m_events' = <<>>
       THEN /\ MainEnds("No events found. Nothing to broadcast.")
            /\ UNCHANGED << m_bcast_arg, m_calls >>
       ELSE /\ BroadcasterCalled(BROADCAST_TO_RELAYS)
            /\ UNCHANGED m_msg
    /\ UNCHANGED << m_flow, m_input, m_pubkey, m_relay_list, m_fetch_arg, m_env,
                    m_files, m_targets >>
    /\ UNCHANGED m_others

\* src/broadcast.py:174-175: broadcast_events returns.
RebroadcastBroadcast ==
    /\ m_flow = "rebroadcast"
    /\ m_pc = "broadcast"
    /\ BroadcasterReturns
    /\ MainEnds("All events were successfully broadcasted.")
    /\ UNCHANGED << m_flow, m_input, m_pubkey, m_relay_list, m_fetch_arg, m_events,
                    m_bcast_arg, m_env, m_calls, m_connected, m_files >>
    /\ UNCHANGED m_others

\* ----------------------------------------------------------------- initial state
InitResolve ==
    /\ r_pc = "idle"
    /\ r_i = 0
    /\ r_sub_id = None
    /\ relay_list = EmptyRelayList
    /\ r_result = NoResult
    /\ r_via = "none"
    /\ r_contacted = <<>>
    /\ r_outcome = [i \in 1..Len(POPULAR_RELAYS) |-> "none"]
    /\ r_ended = [i \in 1..Len(POPULAR_RELAYS) |-> EmptyRelayList]
    /\ r_dropped = FALSE
    /\ r_rx = <<>>
    /\ r_conns = {}
    /\ r_last = NoEnder

InitFetch ==
    /\ f_pc = "idle"
    /\ f_relays = <<>>
    /\ f_i = 0
    /\ f_sub_id = None
    /\ events = <<>>
    /\ f_result = NoBatch
    /\ f_contacted = <<>>
    /\ f_outcome = <<>>
    /\ f_delivered = <<>>
    /\ f_count = 0
    /\ f_rx = <<>>
    /\ f_pubkey = None
    /\ f_req = NoReq
    /\ f_conns = {}
    /\ f_last = NoEnder

InitBroadcast ==
    /\ b_pc = "idle"
    /\ b_relays = <<>>
    /\ b_events = <<>>
    /\ t_pc = <<>>
    /\ t_sent = <<>>
    /\ t_attempts = <<>>
    /\ t_fail = <<>>

InitRelay ==
    /\ l_quiet_at = 0
    /\ l_tick = FALSE

InitCodec ==
    /\ c_pc = "idle"
    /\ c_value = NoString
    /\ c_prefix = None
    /\ c_hex = NoOutcome
    /\ c_back = NoOutcome

InitMain ==
    /\ m_flow = "none"
    /\ m_pc = "idle"
    /\ m_input = NoString
    /\ m_pubkey = <<>>
    /\ m_relay_list = NoResult
    /\ m_fetch_arg = NoArg
    /\ m_events = <<>>
    /\ m_bcast_arg = NoArg
    /\ m_env = NoEnv
    /\ m_msg = None
    /\ m_calls = <<>>
    /\ m_connected = {}
    /\ m_files = 0
    /\ m_targets = {}

Init == InitResolve /\ InitFetch /\ InitBroadcast /\ InitRelay /\ InitCodec /\ InitMain

NextResolve ==
    \/ ResolveCall
    \/ ResolveConnectOk
    \/ ResolveConnectFail
    \/ ResolveSendOk
    \/ ResolveSendFail
    \/ ResolveRecv
    \/ ResolveTimeout
    \/ ResolveRecvFail

NextFetch ==
    \/ FetchCall
    \/ FetchConnectOk
    \/ FetchConnectFail
    \/ FetchSendOk
    \/ FetchSendFail
    \/ FetchRecv
    \/ FetchTimeout
    \/ FetchRecvFail

NextBroadcast ==
    \/ BroadcastCall
    \/ \E i \in Tasks : TaskConnect(i)
    \/ \E i \in Tasks : TaskConnectOk(i)
    \/ \E i \in Tasks : TaskConnectFail(i)
    \/ \E i \in Tasks : TaskSendOk(i)
    \/ \E i \in Tasks : TaskSendFail(i)
    \/ \E i \in Tasks : TaskClose(i)
    \/ BroadcastReturn

SpecResolve == Init /\ [][NextResolve]_vars

SpecFetch == Init /\ [][NextFetch]_vars

SpecBroadcast == Init /\ [][NextBroadcast]_vars

NextCodec ==
    \/ CodecCall
    \/ CodecDecode
    \/ CodecEncode

SpecCodec == Init /\ [][NextCodec]_vars

NextMain ==
    \/ BackupStart
    \/ BackupResolved
    \/ BackupFetched
    \/ RestoreStart
    \/ RestoreResolved
    \/ RestoreBroadcast
    \/ RebroadcastStart
    \/ RebroadcastResolved
    \/ RebroadcastFetched
    \/ RebroadcastBroadcast

SpecMain == Init /\ [][NextMain]_vars

\* src/backup.py:137-146: main awaits fetch_relay_list before it calls
\* fetch_all_events, so the two calls never overlap: a behaviour follows one
\* call of either.
NextCalls ==
    \/ (f_pc = "idle" /\ ResolveCall)
    \/ (f_pc = "idle" /\ ResolveConnectOk)
    \/ (f_pc = "idle" /\ ResolveConnectFail)
    \/ (f_pc = "idle" /\ ResolveSendOk)
    \/ (f_pc = "idle" /\ ResolveSendFail)
    \/ (f_pc = "idle" /\ ResolveRecv)
    \/ (f_pc = "idle" /\ ResolveTimeout)
    \/ (f_pc = "idle" /\ ResolveRecvFail)
    \/ (r_pc = "idle" /\ FetchCall)
    \/ (r_pc = "idle" /\ FetchConnectOk)
    \/ (r_pc = "idle" /\ FetchConnectFail)
    \/ (r_pc = "idle" /\ FetchSendOk)
    \/ (r_pc = "idle" /\ FetchSendFail)
    \/ (r_pc = "idle" /\ FetchRecv)
    \/ (r_pc = "idle" /\ FetchTimeout)
    \/ (r_pc = "idle" /\ FetchRecvFail)

SpecCalls == Init /\ [][NextCalls]_vars

\* ------------------------------------------------- the relay's pace of sending
\* src/backup.py:40, 91: wait_for(websocket.recv(), timeout=10) raises
\* TimeoutError only when the relay at position i sent nothing for 10 seconds.
Silent(i) == l_quiet_at = i

\* The relay on the resolver's connection sends nothing from now on.
ResolveRelaySilent ==
    /\ f_pc = "idle"
    /\ r_pc = "recv"
    /\ ~Silent(r_i)
    /\ l_quiet_at' = r_i
    /\ UNCHANGED << l_others, l_tick >>

\* src/backup.py:40-62: one more message arrives within the timeout, one the
\* loop has no branch for (a NOTICE, a frame of another subscription); the
\* history, which is full, does not record it.
ResolveRecvIgnored ==
    /\ f_pc = "idle"
    /\ r_pc = "recv"
    /\ ~Silent(r_i)
    /\ Len(r_rx) = MaxResolveMsgs
    /\ l_tick' = ~l_tick
    /\ UNCHANGED << l_others, l_quiet_at >>

\* The relay on the fetcher's connection sends nothing from now on.
FetchRelaySilent ==
    /\ r_pc = "idle"
    /\ f_pc = "recv"
    /\ ~Silent(f_i)
    /\ l_quiet_at' = f_i
    /\ UNCHANGED << l_others, l_tick >>

\* src/backup.py:91-100: as ResolveRecvIgnored, in fetch_all_events.
FetchRecvIgnored ==
    /\ r_pc = "idle"
    /\ f_pc = "recv"
    /\ ~Silent(f_i)
    /\ f_count = MaxFetchMsgs
    /\ l_tick' = ~l_tick
    /\ UNCHANGED << l_others, l_quiet_at >>

\* The steps of NextCalls, with recv returning a message only while the relay
\* sends and the timeout passing only once it is silent.
NextLive ==
    \/ (f_pc = "idle" /\ ResolveCall)
    \/ (f_pc = "idle" /\ ResolveConnectOk)
    \/ (f_pc = "idle" /\ ResolveConnectFail)
    \/ (f_pc = "idle" /\ ResolveSendOk)
    \/ (f_pc = "idle" /\ ResolveSendFail)
    \/ (f_pc = "idle" /\ ~Silent(r_i) /\ ResolveRecv)
    \/ (f_pc = "idle" /\ Silent(r_i) /\ ResolveTimeout)
    \/ (f_pc = "idle" /\ ResolveRecvFail)
    \/ ResolveRecvIgnored
    \/ ResolveRelaySilent
    \/ (r_pc = "idle" /\ FetchCall)
    \/ (r_pc = "idle" /\ FetchConnectOk)
    \/ (r_pc = "idle" /\ FetchConnectFail)
    \/ (r_pc = "idle" /\ FetchSendOk)
    \/ (r_pc = "idle" /\ FetchSendFail)
    \/ (r_pc = "idle" /\ ~Silent(f_i) /\ FetchRecv)
    \/ (r_pc = "idle" /\ Silent(f_i) /\ FetchTimeout)
    \/ (r_pc = "idle" /\ FetchRecvFail)
    \/ FetchRecvIgnored
    \/ FetchRelaySilent

\* The event loop runs a coroutine that can take a step: the calls do not
\* stop of themselves, and a pending timeout fires.  Nothing obliges a relay
\* to fall silent.
SpecLive ==
    /\ Init
    /\ [][NextLive]_vars
    /\ WF_vars(NextLive)
    /\ WF_vars(r_pc = "recv" /\ Silent(r_i) /\ ResolveTimeout)
    /\ WF_vars(f_pc = "recv" /\ Silent(f_i) /\ FetchTimeout)

\* ------------------------------------------------------------------ claims
NonEmptyList(rl) == rl.read # <<>> \/ rl.write # <<>>

Positions(n) == [k \in 1..n |-> k]

\* Occurrences of x in the sequence q.
Count(q, x) == Cardinality({k \in 1..Len(q) : q[k] = x})

\* The relay-list tags of rx: <<m, t>> is tag t of message m, an "r" tag with
\* a uri, of a kind-10002 event received on subscription sub.
RTags(rx, sub) ==
    UNION { { <<m, t>> : t \in { t \in 1..Len(rx[m].tags) :
                                    /\ Len(rx[m].tags[t]) >= 2
                                    /\ rx[m].tags[t][1] = "r" } } :
            m \in { m \in 1..Len(rx) : /\ rx[m].type = "EVENT"
                                       /\ rx[m].sub = sub
                                       /\ rx[m].kind = 10002 } }

TagOf(rx, mt) == rx[mt[1]].tags[mt[2]]

RoleOf(tag) == IF Len(tag) >= 3 THEN tag[3] ELSE "absent"

\* C1: fetch_relay_list stops at the first bootstrap relay whose attempt ends
\* (EOSE or idle timeout) with a non-empty read or write list: as soon as the
\* attempt at pool position j has ended so, the call has returned that
\* relay's lists, and the relays connected to are positions 1..j and no other.
C1_FirstSuccessStops ==
    /\ \A k \in 1..Len(r_contacted) : r_contacted[k] = k
    /\ \A j \in 1..Len(POPULAR_RELAYS) :
        (r_outcome[j] \in {"eose", "timeout"} /\ NonEmptyList(r_ended[j]))
        => /\ r_pc = "returned"
           /\ r_via = "relay"
           /\ r_i = j
           /\ r_result = r_ended[j]
           /\ r_contacted = Positions(j)
    /\ r_via = "relay" => /\ r_outcome[r_i] \in {"eose", "timeout"}
                          /\ NonEmptyList(r_ended[r_i])

\* C1 witness: the call returned the lists of the second relay, after the
\* first one answered with nothing, and a third relay was never connected to.
C1_Witness ==
    /\ r_pc = "returned"
    /\ r_via = "relay"
    /\ r_i = 2
    /\ r_outcome[1] = "eose"
    /\ r_i < Len(POPULAR_RELAYS)
    /\ r_contacted = <<1, 2>>

\* C2: fetch_relay_list never returns read and write both empty: when every
\* relay of the pool was tried and none ended with a non-empty list, the
\* result is the bootstrap pool, in pool order, as both read and write.
C2_FallbackIsPool ==
    r_pc = "returned" =>
        /\ ~(r_result.read = <<>> /\ r_result.write = <<>>)
        /\ (\A j \in 1..Len(POPULAR_RELAYS) :
                /\ r_outcome[j] # "none"
                /\ ~(r_outcome[j] \in {"eose", "timeout"} /\ NonEmptyList(r_ended[j])))
           => /\ r_result.read = SubSeq(BootstrapPool, 1, Len(POPULAR_RELAYS))
              /\ r_result.write = SubSeq(BootstrapPool, 1, Len(POPULAR_RELAYS))
              /\ r_contacted = Positions(Len(POPULAR_RELAYS))

\* C2 witness: the pool is exhausted by a connection failure, an EOSE with
\* no tags and a timeout, and the fallback is returned.
C2_Witness ==
    /\ r_pc = "returned"
    /\ r_via = "fallback"
    /\ \E j \in DOMAIN r_outcome : r_outcome[j] = "connfail"
    /\ \E j \in DOMAIN r_outcome : r_outcome[j] = "eose"
    /\ \E j \in DOMAIN r_outcome : r_outcome[j] = "timeout"

\* C3 as stated: neither the read list nor the write list returned by
\* fetch_relay_list is ever empty.
C3_NeitherListEmpty ==
    r_pc = "returned" => (r_result.read # <<>> /\ r_result.write # <<>>)

\* C3 as amended: the read and write lists returned are never both empty; one
\* of them is empty exactly when the result is a relay's own list (not the
\* fallback) and every relay-list tag accumulated carries the other role.
C3_NotBothEmpty ==
    r_pc = "returned" =>
        LET rt == RTags(r_rx, r_sub_id) IN
        /\ r_result.read # <<>> \/ r_result.write # <<>>
        /\ r_result.write = <<>> <=>
             (r_via = "relay" /\ \A mt \in rt : RoleOf(TagOf(r_rx, mt)) = "read")
        /\ r_result.read = <<>> <=>
             (r_via = "relay" /\ \A mt \in rt : RoleOf(TagOf(r_rx, mt)) = "write")

\* C3 witness: the only relay-list event received carries role "read" only
\* and the write list returned is empty.
C3_Witness ==
    /\ r_pc = "returned"
    /\ r_via = "relay"
    /\ r_rx = << EventMsg(r_sub_id, 10002, << <<"r", "wss://a", "read">> >>, None),
                 EoseMsg(r_sub_id) >>
    /\ r_result = [read |-> << "wss://a" >>, write |-> <<>>]

\* C4: for every tag ["r", uri, role?] of a kind-10002 event received on the
\* subscription, role "read" adds uri to read only, "write" to write only,
\* any other or a missing role to both; other tags add nothing.  So each uri
\* occurs in read as often as "r" tags with a role other than "write" name
\* it, and in write as often as "r" tags with a role other than "read" do.
C4_TagRoles ==
    (r_pc = "recv" \/ r_via = "relay") =>
        LET rt == RTags(r_rx, r_sub_id)
            acc == IF r_pc = "recv" THEN relay_list ELSE r_result
            inRead == {mt \in rt : RoleOf(TagOf(r_rx, mt)) # "write"}
            inWrite == {mt \in rt : RoleOf(TagOf(r_rx, mt)) # "read"}
        IN  /\ Len(acc.read) = Cardinality(inRead)
            /\ Len(acc.write) = Cardinality(inWrite)
            /\ \A u \in {"wss://a", "wss://b"} :
                /\ Count(acc.read, u)
                     = Cardinality({mt \in inRead : TagOf(r_rx, mt)[2] = u})
                /\ Count(acc.write, u)
                     = Cardinality({mt \in inWrite : TagOf(r_rx, mt)[2] = u})

\* C4 witness: an event with a "both"-role "r" tag and a "p" tag, then one
\* with a "write" tag, were accumulated.
C4_Witness ==
    /\ r_pc = "recv"
    /\ r_rx = << EventMsg(r_sub_id, 10002,
                          << <<"r", "wss://a", "both">>, <<"p", "wss://b">> >>, None),
                 EventMsg(r_sub_id, 10002, << <<"r", "wss://b", "write">> >>, None) >>
    /\ relay_list = [read |-> << "wss://a" >>, write |-> << "wss://a", "wss://b" >>]

\* C5: a bootstrap relay whose connection fails is never fatal: the call
\* goes on to the next pool position (or to the fallback after the last one),
\* and the result is what the remaining relays determine: with R1 unreachable
\* and R2 serving ["r","wss://a"], ["r","wss://b","write"] the result is
\* read = [wss://a], write = [wss://a, wss://b].
C5_ConnectFailureAbsorbed ==
    /\ r_pc \in {"idle", "connect", "send", "recv", "returned"}
    /\ \A j \in 1..Len(POPULAR_RELAYS) :
        r_outcome[j] = "connfail" =>
            IF j < Len(POPULAR_RELAYS)
            THEN \/ (r_pc = "connect" /\ r_i = j + 1)
                 \/ (Len(r_contacted) >= j + 1 /\ r_contacted[j + 1] = j + 1)
            ELSE r_pc = "returned" /\ r_via = "fallback"
    /\ ( /\ r_pc = "returned"
         /\ r_outcome[1] = "connfail"
         /\ r_i = 2
         /\ r_rx = << EventMsg(r_sub_id, 10002,
                               << <<"r", "wss://a">>, <<"r", "wss://b", "write">> >>, None),
                      EoseMsg(r_sub_id) >> )
       => r_result = [read |-> << "wss://a" >>, write |-> << "wss://a", "wss://b" >>]

\* C5 witness: the scenario: R1 refused the connection, R2 served the event
\* and EOSE, and the call returned.
C5_Witness ==
    /\ r_pc = "returned"
    /\ r_outcome[1] = "connfail"
    /\ r_i = 2
    /\ r_rx = << EventMsg(r_sub_id, 10002,
                          << <<"r", "wss://a">>, <<"r", "wss://b", "write">> >>, None),
                 EoseMsg(r_sub_id) >>

\* Concatenation of the sequences d[1], ..., d[n].
RECURSIVE ConcatUpTo(_, _)
ConcatUpTo(d, n) == IF n = 0 THEN <<>> ELSE ConcatUpTo(d, n - 1) \o d[n]

\* C6: fetch_all_events performs a full sweep: it connects to the relays of
\* its input in input order, goes on to the next position whatever the
\* outcome of a relay, and has tried every position when it returns.
C6_FullSweep ==
    /\ \A k \in 1..Len(f_contacted) : f_contacted[k] = k
    /\ \A j \in 1..Len(f_relays) :
        (f_outcome[j] # "none" /\ j < Len(f_relays))
        => \/ (f_pc = "connect" /\ f_i = j + 1)
           \/ Len(f_contacted) >= j + 1
    /\ f_pc = "returned" =>
        /\ f_contacted = Positions(Len(f_relays))
        /\ \A j \in 1..Len(f_relays) : f_outcome[j] # "none"

\* C6 witness: the first relay delivered events and EOSE, and the second
\* relay was connected to all the same.
C6_Witness ==
    /\ f_pc = "returned"
    /\ Len(f_relays) = 2
    /\ f_outcome[1] = "eose"
    /\ f_delivered[1] # <<>>
    /\ f_contacted = <<1, 2>>

\* C7: the list fetch_all_events returns is the concatenation, in relay
\* visitation order and then arrival order, of the events each relay
\* delivered on the subscription; nothing is deduplicated or reordered (R1
\* serving A, B and R2 serving A gives A, B, A).
C7_BatchIsConcatenation ==
    /\ f_pc # "idle" => events = ConcatUpTo(f_delivered, Len(f_relays))
    /\ f_pc = "returned" =>
        /\ f_result = ConcatUpTo(f_delivered, Len(f_relays))
        /\ (f_delivered = << <<"e1", "e2">>, <<"e1">> >>
            => (f_result = <<"e1", "e2", "e1">> /\ Len(f_result) = 3))

\* C7 witness: R1 served e1, e2 and R2 served e1 again.
C7_Witness ==
    /\ f_pc = "returned"
    /\ f_delivered = << <<"e1", "e2">>, <<"e1">> >>

\* Events of the batch that precede those of position j.
Offset(j) == Len(ConcatUpTo(f_delivered, j - 1))

\* C8: in fetch_all_events a relay that fails mid-stream or times out
\* contributes exactly the events it delivered before the failure, the call
\* does not raise and the following relays are still visited (R1 serving
\* e1, e2 then EOSE and R2 timing out gives [e1, e2]).
C8_FailureKeepsEvents ==
    /\ f_pc \in {"idle", "connect", "send", "recv", "returned"}
    /\ \A j \in 1..Len(f_relays) :
        f_outcome[j] \in {"exception", "timeout", "connfail"} =>
            /\ Len(events) >= Offset(j) + Len(f_delivered[j])
            /\ SubSeq(events, Offset(j) + 1, Offset(j) + Len(f_delivered[j]))
                 = f_delivered[j]
            /\ IF j < Len(f_relays)
               THEN \/ (f_pc = "connect" /\ f_i = j + 1)
                    \/ Len(f_contacted) >= j + 1
               ELSE f_pc = "returned" /\ Len(f_result) >= Offset(j) + Len(f_delivered[j])
    /\ ( /\ f_pc = "returned"
         /\ Len(f_relays) = 2
         /\ f_delivered = << <<"e1", "e2">>, <<>> >>
         /\ f_outcome = << "eose", "timeout" >> )
       => f_result = <<"e1", "e2">>

\* C8 witness: a relay delivered an event and then the connection failed,
\* and the relay after it delivered another event.
C8_Witness ==
    /\ f_pc = "returned"
    /\ Len(f_relays) = 2
    /\ f_outcome[1] = "exception"
    /\ f_delivered[1] = <<"e1">>
    /\ f_delivered[2] = <<"e2">>
    /\ f_result = <<"e1", "e2">>

\* C9: a connection or send failure on one relay ends only that relay's
\* task: every task that met no failure itself has, once it is done, sent
\* every event of the input, whatever the other tasks did.
C9_IndependentTasks ==
    \A i \in Tasks :
        (t_fail[i] = "none" /\ (t_pc[i] = "done" \/ b_pc = "returned"))
        => t_sent[i] = b_events

\* C9 witness: one task failed before it had sent the whole input, and
\* another task of the same call published every event.
C9_Witness ==
    /\ b_pc = "returned"
    /\ b_events # <<>>
    /\ \E i, j \in Tasks :
        /\ t_fail[i] \in {"connect", "send"}
        /\ Len(t_sent[i]) < Len(b_events)
        /\ t_fail[j] = "none"
        /\ t_sent[j] = b_events

\* C10: broadcast_events starts one task, with one connection attempt, per
\* entry of its relay list, and no task waits for another before connecting:
\* a task that has not connected yet can do so in every state of the gather.
C10_OneConcurrentTaskPerRelay ==
    /\ b_pc # "idle" => Tasks = 1..Len(b_relays)
    /\ \A i \in Tasks :
        /\ t_attempts[i] = (IF t_pc[i] = "created" THEN 0 ELSE 1)
        /\ (b_pc = "gather" /\ t_pc[i] = "created") => ENABLED TaskConnect(i)
    /\ b_pc = "returned" => \A i \in Tasks : t_attempts[i] = 1

\* C10 witness: two tasks have a connection open or in progress at once.
C10_Witness ==
    \E i, j \in Tasks :
        /\ i # j
        /\ t_pc[i] \in {"connecting", "open"}
        /\ t_pc[j] \in {"connecting", "open"}

IsPrefix(p, q) == Len(p) <= Len(q) /\ p = SubSeq(q, 1, Len(p))

\* C11: each broadcast task sends, over its one connection, the events of the
\* input in input order: what a relay was sent is at every moment a prefix of
\* the input (all of it once the task is done without a failure); the task
\* waits for no response (while events remain the next send can happen), and
\* after a failure the task is over and sends nothing more.
C11_SentIsPrefix ==
    \A i \in Tasks :
        /\ IsPrefix(t_sent[i], b_events)
        /\ t_attempts[i] <= 1
        /\ (t_fail[i] = "none" /\ t_pc[i] = "done") => t_sent[i] = b_events
        /\ (t_pc[i] = "open" /\ Len(t_sent[i]) < Len(b_events))
           => ENABLED TaskSendOk(i)
        /\ t_fail[i] # "none"
           => (t_pc[i] = "done" /\ ~ENABLED TaskSendOk(i) /\ ~ENABLED TaskConnect(i))

\* C11 witness: a task sent the first of two different events and failed on
\* the second send.
C11_Witness ==
    /\ b_events = <<"e1", "e2">>
    /\ \E i \in Tasks : t_fail[i] = "send" /\ t_sent[i] = <<"e1">>

\* C12: broadcast_events completes when every per-relay task has finished and
\* not before; it completes normally whatever the outcomes of the tasks, and
\* no relay is connected to a second time.
C12_ReturnsWhenAllDone ==
    /\ b_pc \in {"idle", "gather", "returned"}
    /\ b_pc = "returned" => \A i \in Tasks : t_pc[i] = "done" /\ t_attempts[i] = 1
    /\ b_pc = "gather" =>
        ((ENABLED BroadcastReturn) <=> (\A i \in Tasks : t_pc[i] = "done"))
    /\ \A i \in Tasks : t_pc[i] = "done" => ~ENABLED TaskConnect(i)

\* C12 witness: the call returned after one task failed to connect and
\* another failed part-way through the input.
C12_Witness ==
    /\ b_pc = "returned"
    /\ \E i, j \in Tasks :
        /\ t_fail[i] = "connect"
        /\ t_fail[j] = "send"
        /\ t_sent[j] # <<>>

\* C14: fetch_relay_list and fetch_all_events are strictly sequential across
\* relays: at most one connection is open in any state, it is the connection
\* of the position the loop stands on, and it is closed before the next
\* connection is attempted and before the call returns.
C14_OneConnectionAtATime ==
    /\ Cardinality(r_conns) + Cardinality(f_conns) <= 1
    /\ r_pc \in {"send", "recv"} => r_conns = {r_i}
    /\ r_pc \notin {"send", "recv"} => r_conns = {}
    /\ f_pc \in {"send", "recv"} => f_conns = {f_i}
    /\ f_pc \notin {"send", "recv"} => f_conns = {}

\* C14 witness: the second relay's connection is open after the attempt on
\* the first relay ended with an exception.
C14_Witness ==
    /\ f_conns = {2}
    /\ f_outcome[1] = "exception"
    /\ f_pc = "recv"

\* Ids of the EVENT messages of rx that carry subscription sub, in order.
RECURSIVE OwnIds(_, _)
OwnIds(rx, sub) ==
    IF rx = <<>> THEN <<>>
    ELSE LET m == rx[1]
         IN  (IF m.type = "EVENT" /\ m.sub = sub THEN << m.id >> ELSE <<>>)
             \o OwnIds(Tail(rx), sub)

\* C20: only messages of the connection's own subscription change state.  In
\* the fetcher the batch is the events of the earlier relays followed by the
\* ids of the own-subscription EVENTs received so far; the resolver accumulates
\* nothing unless an own-subscription event of kind 10002 arrived; an EOSE that
\* ended an attempt carried that attempt's subscription id, an event that
\* ended one (by raising) was an own-subscription kind-10002 event; and no
\* message is consumed after the matching EOSE: the log of a running attempt
\* holds none, and messages are consumed on the open connection only.
C20_OnlyOwnSubscription ==
    /\ f_pc = "recv" =>
        /\ events = ConcatUpTo(f_delivered, f_i - 1) \o OwnIds(f_rx, f_sub_id)
        /\ \A k \in 1..Len(f_rx) : ~(f_rx[k].type = "EOSE" /\ f_rx[k].sub = f_sub_id)
    /\ f_rx # <<>> => (f_pc = "recv" /\ f_conns = {f_i})
    /\ f_last.msg.type = "EOSE" => f_last.msg.sub = f_last.sub
    /\ f_last.msg.type \in {"none", "EOSE", "BAD"}
    /\ r_pc = "recv" =>
        /\ \A k \in 1..Len(r_rx) : ~(r_rx[k].type = "EOSE" /\ r_rx[k].sub = r_sub_id)
        /\ (\A k \in 1..Len(r_rx) : ~(/\ r_rx[k].type = "EVENT"
                                      /\ r_rx[k].sub = r_sub_id
                                      /\ r_rx[k].kind = 10002))
           => relay_list = EmptyRelayList
        /\ r_conns = {r_i}
    /\ r_last.msg.type = "EOSE" => r_last.msg.sub = r_last.sub
    /\ r_last.msg.type = "EVENT" => (r_last.msg.sub = r_last.sub /\ r_last.msg.kind = 10002)
    /\ r_last.msg.type \in {"none", "EOSE", "BAD", "EVENT"}

\* C20 witness: the fetcher consumed an EVENT and an EOSE of another
\* subscription; the batch is still empty and the attempt still runs.
C20_Witness ==
    /\ f_pc = "recv"
    /\ f_sub_id = "s1"
    /\ f_rx = << EventMsg("s2", NoteKind, <<>>, "e1"), EoseMsg("s2") >>
    /\ events = <<>>

\* C19: within one fetch_all_events call no relay is connected to more than
\* once: the connections made name pairwise different relays.
C19_NoRelayTwice ==
    \A j, k \in 1..Len(f_contacted) :
        j # k => f_relays[f_contacted[j]] # f_relays[f_contacted[k]]

\* A receive loop is running on a relay that has not fallen silent.
RelaySending ==
    \/ (r_pc = "recv" /\ ~Silent(r_i))
    \/ (f_pc = "recv" /\ ~Silent(f_i))

\* C13 as claimed: every call of fetch_relay_list and of fetch_all_events
\* eventually returns, whatever the relays send.
C13_EveryCallReturns ==
    /\ (r_pc # "idle") ~> (r_pc = "returned")
    /\ (f_pc # "idle") ~> (f_pc = "returned")

\* C13: the 10-second timeout is an idle timeout, so an attempt ends on the
\* matching EOSE, on an exception, or once the relay has sent nothing for 10
\* seconds; if no relay keeps sending for ever, every call of
\* fetch_relay_list and of fetch_all_events eventually returns.
C13_ReturnsUnlessRelaySendsForEver ==
    ([]<>(~RelaySending)) => C13_EveryCallReturns

\* C13 witness: fetch_all_events returned after its first relay sent more
\* messages than the loop acts on, then fell silent, and the timeout passed.
C13_Witness ==
    /\ f_pc = "returned"
    /\ Len(f_outcome) >= 1
    /\ f_outcome[1] = "timeout"
    /\ l_quiet_at = 1
    /\ l_tick

\* The 5-bit groups of data fill whole bytes but for fewer than five zero bits.
Regroups(data) ==
    LET n == Len(data)
        r == (5 * n) % 8
    IN  r < 5 /\ (n > 0 => data[n] % Pow2(r) = 0)

\* A well-formed identifier of one of the three kinds: written in one case,
\* with a checksum that verifies and a payload of whole bytes.
ValidIdentifier(x) ==
    /\ x.case \in {"lower", "upper"}
    /\ x.sum = "ok"
    /\ x.hrp \in Prefixes
    /\ Regroups(x.data)

Decoded == c_pc \in {"raised", "decoded", "encoded"}

\* C18 as claimed: every valid identifier x decodes under its own prefix and
\* encode_basic_bech32(decode_basic_bech32(x, prefix), prefix) = x; an
\* identifier with another prefix or a payload that does not regroup raises
\* a ValueError.
C18_RoundTrip ==
    /\ (Decoded /\ ValidIdentifier(c_value) /\ c_value.hrp = c_prefix) => c_hex.ok
    /\ c_pc = "encoded" => (c_back.ok /\ c_back.val = c_value)
    /\ (Decoded /\ (c_value.hrp # c_prefix \/ ~Regroups(c_value.data)))
       => (~c_hex.ok /\ c_hex.err \in {"ValueError: format", "ValueError: data"})

\* C18: decode_basic_bech32 accepts exactly the valid identifiers of the
\* expected prefix, in lower or in upper case, and
\* encode_basic_bech32(decode_basic_bech32(x, prefix), prefix) is x written in
\* lower case: x itself when x is in lower case.  Every other input raises a
\* ValueError: "data" when only the payload fails to regroup from 5-bit to
\* 8-bit units, "format" otherwise (other prefix, mixed case, bad checksum).
C18_RoundTripInLowerCase ==
    /\ Decoded => (c_hex.ok <=> (ValidIdentifier(c_value) /\ c_value.hrp = c_prefix))
    /\ c_pc = "encoded" => (c_back.ok /\ c_back.val = Lower(c_value))
    /\ (c_pc = "encoded" /\ c_value.case = "lower") => c_back.val = c_value
    /\ (Decoded /\ ~c_hex.ok) =>
        /\ c_hex.err \in {"ValueError: format", "ValueError: data"}
        /\ c_hex.err = "ValueError: data"
           <=> (/\ c_value.case \in {"lower", "upper"}
                /\ c_value.sum = "ok"
                /\ c_value.hrp = c_prefix
                /\ ~Regroups(c_value.data))
    /\ (Decoded /\ c_hex.ok) => Len(c_hex.val) = 2 * ((5 * Len(c_value.data)) \div 8)

\* C18 witness: an identifier written in upper case was decoded and encoded
\* again; the result is the same identifier in lower case.
C18_Witness ==
    /\ c_pc = "encoded"
    /\ c_value = Bech32String("upper", "npub", <<31, 8>>, "ok")
    /\ c_hex.val = <<15, 10>>
    /\ c_back.val = Bech32String("lower", "npub", <<31, 8>>, "ok")

\* C15 as claimed: every flow that fetches events hands fetch_all_events the
\* read list fetch_relay_list returned; broadcast_events gets the write list
\* in the restore flow and the fixed target list in the rebroadcast flow.
C15_FetchFromReadList ==
    /\ m_fetch_arg # NoArg => m_fetch_arg = m_relay_list.read
    /\ m_bcast_arg # NoArg =>
        \/ (m_flow = "restore" /\ m_bcast_arg = m_relay_list.write)
        \/ (m_flow = "rebroadcast" /\ m_bcast_arg = BROADCAST_TO_RELAYS)

\* An identifier decode_npub cannot decode: empty, not bech32 (mixed case, a
\* checksum that fails), another prefix, or a payload that does not regroup.
InvalidIdentifier(x) ==
    \/ x = EmptyString
    \/ x.case = "mixed"
    \/ x.sum # "ok"
    \/ x.hrp # "npub"
    \/ ~Regroups(x.data)

\* C16: when the identifier entered is empty or does not decode, main ends
\* with a message and nothing else has happened: no function was awaited, no
\* relay connected to, no file written, nothing published.  Every other
\* identifier takes the flow on to fetch_relay_list.
C16_InvalidIdentifierNoAction ==
    /\ (m_pc # "idle" /\ InvalidIdentifier(m_input)) =>
        /\ m_pc = "ended"
        /\ m_msg = (IF m_input = EmptyString THEN "Invalid npub key."
                                             ELSE "An error occurred")
        /\ m_calls = <<>>
        /\ m_connected = {}
        /\ m_files = 0
        /\ m_targets = {}
        /\ m_fetch_arg = NoArg
        /\ m_bcast_arg = NoArg
    /\ (m_pc # "idle" /\ ~InvalidIdentifier(m_input)) =>
        /\ Len(m_calls) >= 1
        /\ m_calls[1] = "fetch_relay_list"

\* C16 witness: the rebroadcast flow ended on an nsec typed for the npub.
C16_Witness ==
    /\ m_flow = "rebroadcast"
    /\ m_pc = "ended"
    /\ m_input = Bech32String("lower", "nsec", <<31, 8>>, "ok")
    /\ m_msg = "An error occurred"

\* The restore flow found something missing: no write relay, no folder, no
\* file, no valid selection, or no event in the file.
RestoreNothingToDo ==
    \/ m_relay_list.write = <<>>
    \/ ~m_env.folder
    \/ m_env.files = 0
    \/ ~(m_env.sel.num /\ m_env.sel.n \in 1..m_env.files)
    \/ (m_env.loads /\ m_env.content = <<>>)

\* C17: with no events fetched the backup flow writes no file and the
\* rebroadcast flow connects to no broadcast target; the restore flow ends
\* before broadcast_events when the write list is empty, the folder missing,
\* no file there, the selection invalid or the file empty.  Each ends with
\* its own message, not through the except clause.
C17_EmptyResultNoWrite ==
    /\ (m_flow = "backup" /\ m_pc = "ended" /\ m_fetch_arg # NoArg /\ m_events = <<>>) =>
        /\ m_files = 0
        /\ m_calls = << "fetch_relay_list", "fetch_all_events" >>
        /\ m_msg = "No events found to backup."
    /\ (m_flow = "backup" /\ m_files > 0) => m_events # <<>>
    /\ (m_flow = "rebroadcast" /\ m_pc \in {"broadcast", "ended"}
            /\ m_fetch_arg # NoArg /\ m_events = <<>>) =>
        /\ m_pc = "ended"
        /\ m_targets = {}
        /\ m_bcast_arg = NoArg
        /\ m_calls = << "fetch_relay_list", "fetch_all_events" >>
        /\ m_msg = "No events found. Nothing to broadcast."
    /\ (m_flow = "restore" /\ m_relay_list # NoResult /\ RestoreNothingToDo) =>
        /\ m_pc = "ended"
        /\ m_targets = {}
        /\ m_bcast_arg = NoArg
        /\ m_calls = << "fetch_relay_list" >>
        /\ m_msg \in { "No write relays found.", "Backup folder does not exist.",
                       "No backup files found in the backup folder.",
                       "Invalid selection.", "No events found in the backup file." }
    /\ m_targets # {} => m_events # <<>>

\* C17 witness: the restore flow ended on a selection beyond the last file,
\* with a write list and backup files at hand.
C17_Witness ==
    /\ m_flow = "restore"
    /\ m_pc = "ended"
    /\ m_relay_list.write = << "wss://b" >>
    /\ m_env.folder
    /\ m_env.files = 2
    /\ m_env.sel = [num |-> TRUE, n |-> 3]
    /\ m_msg = "Invalid selection."
    /\ m_bcast_arg = NoArg


\* The tags of rx that fetch_relay_list files under the read list (any "r"
\* tag but a "write" one) and under the write list (any but a "read" one).
ReadTags(rx, sub) == { mt \in RTags(rx, sub) : RoleOf(TagOf(rx, mt)) # "write" }

WriteTags(rx, sub) == { mt \in RTags(rx, sub) : RoleOf(TagOf(rx, mt)) # "read" }

\* rl holds the tags of rx and nothing else: as many entries as rx has tags
\* for each list, and every entry is the uri of such a tag.
OnlyTagsOf(rl, rx, sub) ==
    /\ Len(rl.read) = Cardinality(ReadTags(rx, sub))
    /\ Len(rl.write) = Cardinality(WriteTags(rx, sub))
    /\ \A k \in 1..Len(rl.read) :
        \E mt \in ReadTags(rx, sub) : TagOf(rx, mt)[2] = rl.read[k]
    /\ \A k \in 1..Len(rl.write) :
        \E mt \in WriteTags(rx, sub) : TagOf(rx, mt)[2] = rl.write[k]

\* C21: a non-fallback result of fetch_relay_list contains only tags received
\* from one single relay, in one attempt that ended by EOSE or idle timeout:
\* while an attempt receives, its accumulator holds exactly the tags of the
\* messages received from that relay in that attempt (it is empty before the
\* first message), and a result returned from a relay is exactly the tags of
\* the attempt that returned it, whatever an earlier attempt, abandoned by an
\* exception, had accumulated.
C21_ResultFromOneAttempt ==
    /\ r_pc = "recv" => OnlyTagsOf(relay_list, r_rx, r_sub_id)
    /\ r_via = "relay" => /\ r_pc = "returned"
                          /\ r_outcome[r_i] \in {"eose", "timeout"}
                          /\ OnlyTagsOf(r_result, r_rx, r_sub_id)
                          /\ \A j \in 1..(r_i - 1) :
                              r_outcome[j] = "exception" => r_ended[j] = EmptyRelayList

\* C21 witness: the call returned the lists of a later relay after an earlier
\* attempt was left by an exception with tags in its accumulator.
C21_Witness ==
    /\ r_pc = "returned"
    /\ r_via = "relay"
    /\ r_dropped
    /\ r_i >= 2
    /\ \E j \in 1..(r_i - 1) : r_outcome[j] = "exception"


\* C22: the REQ filter sent by fetch_all_events names authors = [pubkey] and
\* covers the entire representable kind space: every kind an event may carry
\* (0 to 65535) is in the kinds list of the filter sent.
C22_FilterCoversKindSpace ==
    f_req.type = "REQ" => /\ f_req.authors = << f_pubkey >>
                          /\ \A kind \in 0..65535 : kind \in KindsOf(f_req)

====
